---- MODULE Spec2Model ----
(***************************************************************************)
(* A model of the Spectra bot (src/app.py): the giveaway registry and its  *)
(* /start_giveaway and /end_giveaway handlers, the license registry and    *)
(* its /license_generate, /license_guild and /license_delete handlers, the *)
(* check_licenses background loop, and the JSON files the registries are   *)
(* written to and loaded from.                                             *)
(*                                                                         *)
(* The bot is one asyncio event loop.  A handler runs without interruption *)
(* from one await to the next, so every action below is the code between   *)
(* two awaits of one handler; pc[p] is the await a handler is suspended at.*)
(***************************************************************************)
EXTENDS Integers, Sequences, FiniteSets, TLC

\* ------------------------------------------------------------------ bounds

\* Announcement messages the chat platform hands out (snowflakes 1..MaxMessages).
MaxMessages == 2
\* The clock of the giveaway model runs from 0 to MaxMinutes minutes.
MaxMinutes == 1
\* Longest /start_giveaway duration argument, in minutes.
MaxDuration == 1
\* Process restarts in one behaviour.
MaxRestarts == 1
\* License keys /license_generate hands out (uuid4 values 1..MaxKeys).
MaxKeys == 2
\* The clock of the license model runs from 0 to MaxDays days.
MaxDays == 2
\* Longest /license_generate duration argument, in days.
MaxTerm == 1
\* The /license_generate duration, in days, of the keys that are bound some
\* days after they were generated.
MaxLongTerm == 2
\* License keys handed out where check_licenses races with /license_guild alone.
MaxRaceKeys == 3

\* Announcement messages where one caller starts and ends giveaways in turn.
MaxReuseMessages == 3

\* Largest number of winners a giveaway may be meant to have.
MaxWinners == 2

\* ------------------------------------------------------- program constants

\* duration * 60: the duration argument is in minutes, time.time() in seconds.
SecondsPerMinute == 60
\* timedelta(days=duration), as seconds of expiry_date.timestamp().
SecondsPerDay == 86400

\* Command invocations alive at once: the races of this program need two.
Handlers == {1, 2}
MessageIds == 1..MaxMessages
\* Every message id some specification below can hand out.
AllMessageIds == MessageIds \cup (1..MaxReuseMessages)
\* /end_giveaway takes any integer; these are the ids that can be active.
GiveawayIds == 1..MaxMessages
Durations == 1..MaxDuration
\* Users that may have reacted to an announcement; "bot" has user.bot = True.
Users == {"alice", "bob", "bot"}
NoWinner == "None"
\* The guilds the bot is a member of (interaction.guild_id).
Guilds == {1, 2}
\* The license_key argument of a command, normalised: a key that was, or will be,
\* generated.
Keys == 1..MaxKeys
RaceKeys == 1..MaxRaceKeys
\* duration <= 0 asks for a lifetime key.
Terms == 0..MaxTerm
\* Lifetime keys and keys of the longest term.
LongTerms == {0, MaxLongTerm}
\* guild_id of a license no guild has claimed (None).
NoGuild == 0
\* The channels /set_giveaway_channel can name.
Channels == {1}
\* guild_config.get('giveaway_channel_id') of a guild that has set none (None).
NoChannel == 0

VARIABLES
    now,              \* time.time(), in seconds
    disk,             \* "ok", or "faulty" while writes to the files fail
    restarts,         \* process restarts so far
    pc,               \* per handler: the await it is suspended at
    loc,              \* per handler: its local variables
    reply,            \* the followup the last step sent to a caller, if any
    ACTIVE_GIVEWAYS,  \* giveaway_id -> giveaway record (in memory)
    giveawaysFile,    \* giveaways.json
    nextMessageId,    \* the next message id channel.send returns
    obtained,         \* message_id -> attempts that popped that giveaway
    announced,        \* message_id -> result announcements sent for it
    edited,           \* message_id -> edits of its announcement message
    LICENSE_DB,       \* key -> license record (in memory)
    CONFIG_DB,        \* guild_id -> guild config (in memory)
    licensesFile,     \* licenses.json
    configFile,       \* config.json
    nextKey,          \* the next key uuid.uuid4 returns
    tick,             \* the check_licenses loop: where it is, and its locals
    notices           \* guild_id -> owner notifications since its last activation

env == <<now, disk, restarts>>
handlers == <<pc, loc, reply>>
history == <<obtained, announced, edited>>
giveaways == <<ACTIVE_GIVEWAYS, giveawaysFile, nextMessageId, history>>
licenses == <<LICENSE_DB, CONFIG_DB, licensesFile, configFile, nextKey, tick, notices>>

vars == <<env, handlers, giveaways, licenses>>

\* ------------------------------------------------------------- persistence

EmptyDb == [k \in {} |-> 0]

\* str(k) of an integer key, as json.dump writes it; int(s) reads it back.
str(k) == <<"str", k>>
int(s) == s[2]

\* A dump that loses the record with the highest key.
JsonDumpWithoutLast(db) ==
    [s \in {str(k) : k \in {j \in DOMAIN db : \E i \in DOMAIN db : i > j}} |-> db[int(s)]]

\* The document json.dump writes for an int-keyed registry: the keys become strings.
JsonDumpIntKeys(db) == [s \in {str(k) : k \in DOMAIN db} |-> db[int(s)]]

\* load_data for the licenses with every read treated as failed.
LoadLicensesNothing(file) == EmptyDb

\* {int(k): v for k, v in json.load(f).items()}
LoadIntKeys(doc) == [k \in {int(s) : s \in DOMAIN doc} |-> doc[str(k)]]

MissingFile == [state |-> "missing", doc |-> EmptyDb]
CorruptFile == [state |-> "corrupt", doc |-> EmptyDb]

\* What one save_data call can do to a file: write it whole; fail in open(), which
\* leaves the file as it was; fail inside json.dump after open(file, 'w') truncated
\* it, which leaves a document json.load rejects.  The exception is swallowed.
SaveOutcomes == IF disk = "ok" THEN {"written"} ELSE {"open_failed", "dump_failed"}

\* save_data returning before it opens the file.
save_data_skipped(file, doc, outcome) == file

save_data(file, doc, outcome) ==
    CASE outcome = "written" -> [state |-> "ok", doc |-> doc]
      [] outcome = "open_failed" -> file
      [] OTHER -> CorruptFile

\* load_data for the giveaways registry: the module-level {} when the file is
\* missing, {} again when reading it raises.
LoadGiveaways(file) ==
    IF file.state = "ok" THEN LoadIntKeys(file.doc) ELSE EmptyDb

\* load_data for the guild configuration, read the same way.
LoadConfig(file) ==
    IF file.state = "ok" THEN LoadIntKeys(file.doc) ELSE EmptyDb

\* load_data for the licenses: json.load as it is, the keys are strings already.
LoadLicenses(file) ==
    IF file.state = "ok" THEN file.doc ELSE EmptyDb

\* setup_hook: a file that does not exist is created from the loaded registry.
CreateIfMissing(file, doc, outcome) ==
    IF file.state = "missing" THEN save_data(file, doc, outcome) ELSE file

\* ---------------------------------------------------------------- handlers

NoData == [prize |-> "none", start_time |-> 0, end_time |-> 0,
           channel_id |-> 0, host_id |-> 0, message_id |-> 0]

IdleLoc == [giveaway_id |-> 0, end_time |-> 0, data |-> NoData,
            reacted |-> {}, participants |-> {}, winner |-> NoWinner,
            key |-> 0, guild_id |-> NoGuild]

\* No followup is sent in this step.
NoReply == [text |-> "none", arg |-> 0]

Silent == reply' = NoReply

\* dict.pop misread as a lookup: the entry stays in the registry.
RemoveNothing(db, k) == db

\* dict.popitem in place of dict.pop: the entry inserted last goes, whatever k is.
RemoveLast(db, k) ==
    [x \in DOMAIN db \ {CHOOSE y \in DOMAIN db : \A z \in DOMAIN db : z <= y} |-> db[x]]

\* ACTIVE_GIVEWAYS.pop(giveaway_id) / del LICENSE_DB[key]
Remove(db, k) == [x \in DOMAIN db \ {k} |-> db[x]]

\* The assignment undone: the registry is left as it was.
PutNothing(db, k, v) == db

Put(db, k, v) == [x \in DOMAIN db \cup {k} |-> IF x = k THEN v ELSE db[x]]

Bump(f, m) == [f EXCEPT ![m] = @ + 1]

\* The handler returns without its followup.
FinishSilently(p, text, arg) ==
    /\ pc' = [pc EXCEPT ![p] = "idle"]
    /\ loc' = [loc EXCEPT ![p] = IdleLoc]
    /\ reply' = NoReply

\* The handler sends `text` about `arg` (a giveaway id or a key) and returns.
Finish(p, text, arg) ==
    /\ pc' = [pc EXCEPT ![p] = "idle"]
    /\ loc' = [loc EXCEPT ![p] = IdleLoc]
    /\ reply' = [text |-> text, arg |-> arg]

\* -- /start_giveaway ---------------------------------------------------------

\* The command is invoked, deferred, and runs to `await channel.send`: end_time
\* and giveaway_id are computed here, before the announcement is sent.
StartGiveawayBegin(p, duration) ==
    /\ pc[p] = "idle"
    /\ pc' = [pc EXCEPT ![p] = "start_send"]
    /\ loc' = [loc EXCEPT ![p] = [IdleLoc EXCEPT
                  !.end_time = now + duration * SecondsPerMinute,
                  !.giveaway_id = Cardinality(DOMAIN ACTIVE_GIVEWAYS) + 1]]
    /\ Silent
    /\ UNCHANGED <<env, giveaways, licenses>>

\* What an awaited call to the chat platform can do: return, or raise.
CallOutcomes == {"returned", "raised"}

\* The try block goes on after a call of any outcome.
ReturnedAlways(outcome) == TRUE

\* A call that raises leaves the try block for its except clause.
Returned(outcome) == outcome = "returned"

\* message = await channel.send(embed=embed) returns the message or raises.
StartSendReturns(p, outcome) ==
    /\ pc[p] = "start_send"
    /\ IF Returned(outcome)
       THEN /\ nextMessageId <= MaxMessages
            /\ pc' = [pc EXCEPT ![p] = "start_react"]
            /\ loc' = [loc EXCEPT ![p].data = [NoData EXCEPT !.message_id = nextMessageId]]
            /\ nextMessageId' = nextMessageId + 1
            /\ Silent
       ELSE /\ Finish(p, "start_failed", loc[p].giveaway_id)
            /\ UNCHANGED nextMessageId
    /\ UNCHANGED <<env, ACTIVE_GIVEWAYS, giveawaysFile, history, licenses>>

StartGiveawaySend(p) == \E outcome \in CallOutcomes : StartSendReturns(p, outcome)

\* StartGiveawaySend for the caller who starts and ends giveaways in turn.
ReuseSend(p) ==
    /\ pc[p] = "start_send"
    /\ \/ /\ nextMessageId <= MaxReuseMessages
          /\ pc' = [pc EXCEPT ![p] = "start_react"]
          /\ loc' = [loc EXCEPT ![p].data = [NoData EXCEPT !.message_id = nextMessageId]]
          /\ nextMessageId' = nextMessageId + 1
          /\ Silent
       \/ /\ Finish(p, "start_failed", loc[p].giveaway_id)
          /\ UNCHANGED nextMessageId
    /\ UNCHANGED <<env, ACTIVE_GIVEWAYS, giveawaysFile, history, licenses>>

\* await message.add_reaction returns, and the record is stored and saved, or
\* it raises.
StartReactReturns(p, outcome) ==
    /\ pc[p] = "start_react"
    /\ IF Returned(outcome)
       THEN /\ ACTIVE_GIVEWAYS' = Put(ACTIVE_GIVEWAYS, loc[p].giveaway_id,
                                    [prize |-> "prize", start_time |-> now,
                                     end_time |-> loc[p].end_time,
                                     channel_id |-> 1, host_id |-> 1,
                                     message_id |-> loc[p].data.message_id])
            /\ \E o \in SaveOutcomes :
                  giveawaysFile' =
                     save_data(giveawaysFile, JsonDumpIntKeys(ACTIVE_GIVEWAYS'), o)
            /\ Finish(p, "start_ok", loc[p].giveaway_id)
       ELSE /\ Finish(p, "start_failed", loc[p].giveaway_id)
            /\ UNCHANGED <<ACTIVE_GIVEWAYS, giveawaysFile>>
    /\ UNCHANGED <<env, nextMessageId, history, licenses>>

StartGiveawayRegister(p) == \E outcome \in CallOutcomes : StartReactReturns(p, outcome)

\* -- /end_giveaway -----------------------------------------------------------

\* The command is invoked; after `await interaction.response.defer` comes the
\* membership test, and the pop and save that follow it with no await between.
EndGiveawayClaim(p, giveaway_id) ==
    /\ pc[p] = "idle"
    /\ IF giveaway_id \notin DOMAIN ACTIVE_GIVEWAYS
       THEN /\ Finish(p, "not_active", giveaway_id)
            /\ UNCHANGED <<ACTIVE_GIVEWAYS, giveawaysFile, obtained>>
       ELSE /\ ACTIVE_GIVEWAYS' = Remove(ACTIVE_GIVEWAYS, giveaway_id)
            /\ \E o \in SaveOutcomes :
                  giveawaysFile' = save_data(giveawaysFile, JsonDumpIntKeys(ACTIVE_GIVEWAYS'), o)
            /\ pc' = [pc EXCEPT ![p] = "end_fetch"]
            /\ loc' = [loc EXCEPT ![p] = [IdleLoc EXCEPT
                          !.giveaway_id = giveaway_id,
                          !.data = ACTIVE_GIVEWAYS[giveaway_id]]]
            /\ Silent
            /\ obtained' = Bump(obtained, ACTIVE_GIVEWAYS[giveaway_id].message_id)
    /\ UNCHANGED <<env, nextMessageId, announced, edited, licenses>>

\* user.bot
IsBot(u) == u = "bot"

\* The list comprehension without its filter.
ParticipantsWithBots(reacted) == reacted

\* [user async for user in reaction.users() if not user.bot]
Participants(reacted) == {u \in reacted : ~IsBot(u)}

\* fetch_channel / fetch_message, then the reaction's users without the bots and
\* random.choice among them; a failed fetch ends the handler.
EndGiveawayCollect(p) ==
    /\ pc[p] = "end_fetch"
    /\ \/ \E reacted \in SUBSET Users :
            LET participants == Participants(reacted) IN
            /\ pc' = [pc EXCEPT ![p] = "end_announce"]
            /\ \E winner \in (IF participants = {} THEN {NoWinner} ELSE participants) :
                  loc' = [loc EXCEPT ![p].reacted = reacted,
                                     ![p].participants = participants,
                                     ![p].winner = winner]
            /\ Silent
       \/ Finish(p, "message_not_found", loc[p].giveaway_id)
    /\ UNCHANGED <<env, giveaways, licenses>>

\* await channel.send(announcement), then the followup to the caller; a send
\* that raises ends the handler before the edit.
EndGiveawayAnnounce(p) ==
    /\ pc[p] = "end_announce"
    /\ \/ /\ announced' = Bump(announced, loc[p].data.message_id)
          /\ pc' = [pc EXCEPT ![p] = "end_edit"]
          /\ reply' = [text |-> IF loc[p].winner # NoWinner THEN "ended_winner"
                                                             ELSE "ended_no_winner",
                        arg |-> loc[p].giveaway_id]
          /\ UNCHANGED loc
       \/ /\ Finish(p, "error", loc[p].giveaway_id)
          /\ UNCHANGED announced
    /\ UNCHANGED <<env, ACTIVE_GIVEWAYS, giveawaysFile, nextMessageId, obtained, edited,
                   licenses>>

\* await message.edit(embed=new_embed), which may raise.
EndGiveawayEdit(p) ==
    /\ pc[p] = "end_edit"
    /\ pc' = [pc EXCEPT ![p] = "idle"]
    /\ loc' = [loc EXCEPT ![p] = IdleLoc]
    /\ \/ edited' = Bump(edited, loc[p].data.message_id)
       \/ UNCHANGED edited
    /\ Silent
    /\ UNCHANGED <<env, ACTIVE_GIVEWAYS, giveawaysFile, nextMessageId,
                   obtained, announced, licenses>>

\* ---------------------------------------------------------------- licenses

\* A Python value that is an int, a str or None, as the license fields are.
PyInt(n) == [kind |-> "int", n |-> n, s |-> ""]
PyStr(s) == [kind |-> "str", n |-> 0, s |-> s]
PyNone == [kind |-> "none", n |-> 0, s |-> ""]

\* int(v) returns for an int; for a str that is no numeral, and for None, it raises
\* ValueError or TypeError.
IntRaises(v) == v.kind # "int"

\* The entry with the time of the activation where the key has no timestamp.
PremiumStamped(key, expires_at) ==
    [active |-> TRUE, license_key |-> key,
     expires_at |-> IF expires_at = PyStr("N/A") THEN PyInt(now) ELSE expires_at,
     inactivated_at |-> 0, removal_reason |-> "none"]

\* The entry with the key's term counted from the activation.
PremiumFromActivation(key, expires_at) ==
    [active |-> TRUE, license_key |-> key,
     expires_at |-> IF expires_at.kind = "int" THEN PyInt(expires_at.n + now)
                    ELSE expires_at,
     inactivated_at |-> 0, removal_reason |-> "none"]

\* The `premium` entry license_guild writes into a guild's config, and the two
\* fields the deactivations add to it ("none" and 0 while they are absent).
Premium(key, expires_at) ==
    [active |-> TRUE, license_key |-> key, expires_at |-> expires_at,
     inactivated_at |-> 0, removal_reason |-> "none"]

\* guild_config.get('premium', {}) of a config no key was ever bound in: every
\* read of it goes through .get with these defaults.
NoPremium ==
    [active |-> FALSE, license_key |-> 0, expires_at |-> PyNone,
     inactivated_at |-> 0, removal_reason |-> "none"]

\* The config of a guild with no entry in CONFIG_DB ({}).
NoConfig == [premium |-> NoPremium, giveaway_channel_id |-> NoChannel]

NoNotices == [expired |-> 0, deleted |-> 0]

IdleTick == [pc |-> "idle", current_time |-> 0, expired_guild_ids |-> <<>>, i |-> 0,
             raised |-> {}]

\* is_guild_premium with expires_ts >= time.time() in place of >.
is_guild_premium_inclusive(guild_id) ==
    IF guild_id \notin DOMAIN CONFIG_DB \/ ~CONFIG_DB[guild_id].premium.active
    THEN <<FALSE, PyNone>>
    ELSE LET expires_ts == CONFIG_DB[guild_id].premium.expires_at IN
         IF expires_ts = PyStr("LIFETIME") THEN <<TRUE, PyStr("LIFETIME")>>
         ELSE IF IntRaises(expires_ts) THEN <<FALSE, PyNone>>
         ELSE IF expires_ts.n >= now THEN <<TRUE, expires_ts>>
         ELSE <<FALSE, expires_ts>>

\* is_guild_premium that trusts the `active` flag and leaves the expiry to
\* check_licenses.
is_guild_premium_flag_only(guild_id) ==
    IF guild_id \notin DOMAIN CONFIG_DB \/ ~CONFIG_DB[guild_id].premium.active
    THEN <<FALSE, PyNone>>
    ELSE <<TRUE, CONFIG_DB[guild_id].premium.expires_at>>

\* is_guild_premium: (is_premium, expires_ts)
is_guild_premium(guild_id) ==
    IF guild_id \notin DOMAIN CONFIG_DB \/ ~CONFIG_DB[guild_id].premium.active
    THEN <<FALSE, PyNone>>
    ELSE LET expires_ts == CONFIG_DB[guild_id].premium.expires_at IN
         IF expires_ts = PyStr("LIFETIME") THEN <<TRUE, PyStr("LIFETIME")>>
         ELSE IF IntRaises(expires_ts) THEN <<FALSE, PyNone>>
         ELSE IF expires_ts.n > now THEN <<TRUE, expires_ts>>
         ELSE <<FALSE, expires_ts>>

\* guild_config = {} whatever CONFIG_DB holds for the guild.
GuildConfigFresh(guild_id) == NoConfig

\* guild_config = CONFIG_DB.get(guild_id, {})
GuildConfig(guild_id) ==
    IF guild_id \in DOMAIN CONFIG_DB THEN CONFIG_DB[guild_id] ELSE NoConfig

\* -- /set_giveaway_channel ----------------------------------------------------

\* The command has no await before its save: the guild's config, created when
\* the guild has none, gets the channel id and config.json is written.
SetGiveawayChannel(guild_id, channel) ==
    /\ CONFIG_DB' = Put(CONFIG_DB, guild_id,
                        [GuildConfig(guild_id) EXCEPT !.giveaway_channel_id = channel])
    /\ \E o \in SaveOutcomes :
          configFile' = save_data(configFile, JsonDumpIntKeys(CONFIG_DB'), o)
    /\ reply' = [text |-> "channel_set", arg |-> channel]
    /\ UNCHANGED <<env, pc, loc, giveaways, LICENSE_DB, licensesFile, nextKey, tick,
                   notices>>

\* -- /license_generate --------------------------------------------------------

\* The record license_generate stores for a key of `duration` days.
NewLicense(duration) ==
    [expires_at |-> IF duration <= 0 THEN "LIFETIME" ELSE "DATE",
     expiry_timestamp |-> IF duration <= 0 THEN PyStr("N/A")
                          ELSE PyInt(now + duration * SecondsPerDay),
     is_used |-> FALSE,
     guild_id |-> NoGuild]

\* The command has no await between its first line and its save: it is one step.
LicenseGenerate(duration) ==
    /\ nextKey <= MaxKeys
    /\ LICENSE_DB' = Put(LICENSE_DB, nextKey, NewLicense(duration))
    /\ nextKey' = nextKey + 1
    /\ \E o \in SaveOutcomes : licensesFile' = save_data(licensesFile, LICENSE_DB', o)
    /\ reply' = [text |-> "generated", arg |-> 0]
    /\ UNCHANGED <<env, pc, loc, giveaways, CONFIG_DB, configFile, tick, notices>>

\* The same command where up to MaxRaceKeys keys are handed out.
RaceGenerate(duration) ==
    /\ nextKey <= MaxRaceKeys
    /\ LICENSE_DB' = Put(LICENSE_DB, nextKey, NewLicense(duration))
    /\ nextKey' = nextKey + 1
    /\ \E o \in SaveOutcomes : licensesFile' = save_data(licensesFile, LICENSE_DB', o)
    /\ reply' = [text |-> "generated", arg |-> 0]
    /\ UNCHANGED <<env, pc, loc, giveaways, CONFIG_DB, configFile, tick, notices>>

\* -- /license_guild -----------------------------------------------------------

\* The checks without the one that a used key belongs to this guild.
BindVerdictAnyGuild(key, guild_id) ==
    IF key \notin DOMAIN LICENSE_DB THEN "invalid_key"
    ELSE LET license_info == LICENSE_DB[key] IN
         IF is_guild_premium(guild_id)[1] THEN "already_premium"
         ELSE IF /\ license_info.expiry_timestamp # PyStr("N/A")
                 /\ license_info.expiry_timestamp.n <= now THEN "key_expired"
         ELSE "bind_ok"

\* The checks with == in place of != in the comparison of the guild ids.
BindVerdictSameGuild(key, guild_id) ==
    IF key \notin DOMAIN LICENSE_DB THEN "invalid_key"
    ELSE LET license_info == LICENSE_DB[key] IN
         IF is_guild_premium(guild_id)[1] THEN "already_premium"
         ELSE IF /\ license_info.expiry_timestamp # PyStr("N/A")
                 /\ license_info.expiry_timestamp.n <= now THEN "key_expired"
         ELSE IF license_info.is_used /\ license_info.guild_id = guild_id THEN "key_in_use"
         ELSE "bind_ok"

\* The validation checks of license_guild, in the order the code makes them: the
\* rejection it replies with, or "bind_ok".
BindVerdict(key, guild_id) ==
    IF key \notin DOMAIN LICENSE_DB THEN "invalid_key"
    ELSE LET license_info == LICENSE_DB[key] IN
         IF is_guild_premium(guild_id)[1] THEN "already_premium"
         ELSE IF /\ license_info.expiry_timestamp # PyStr("N/A")
                 /\ license_info.expiry_timestamp.n <= now THEN "key_expired"
         ELSE IF license_info.is_used /\ license_info.guild_id # guild_id THEN "key_in_use"
         ELSE "bind_ok"

\* The rejections of a known key send their reply and fall through to the
\* application for want of a `return`.
AppliedUnlessInvalid(verdict) == verdict # "invalid_key"

\* Every rejection is `return await interaction.followup.send(...)`: the
\* application is reached only when no check rejected.
Applied(verdict) == verdict = "bind_ok"

\* From the lookup of the key to the last save there is no await: the command is
\* one step, and a rejected one changes nothing.
LicenseGuild(key, guild_id) ==
    /\ reply' = [text |-> BindVerdict(key, guild_id), arg |-> 0]
    /\ IF Applied(BindVerdict(key, guild_id))
       THEN /\ LICENSE_DB' = [LICENSE_DB EXCEPT ![key].is_used = TRUE,
                                                ![key].guild_id = guild_id]
            /\ CONFIG_DB' = Put(CONFIG_DB, guild_id,
                   [GuildConfig(guild_id) EXCEPT
                       !.premium = Premium(key, LICENSE_DB[key].expiry_timestamp)])
            /\ \E o \in SaveOutcomes : licensesFile' = save_data(licensesFile, LICENSE_DB', o)
            /\ \E o \in SaveOutcomes :
                  configFile' = save_data(configFile, JsonDumpIntKeys(CONFIG_DB'), o)
            /\ notices' = [notices EXCEPT ![guild_id] = NoNotices]
       ELSE UNCHANGED <<LICENSE_DB, CONFIG_DB, licensesFile, configFile, notices>>
    /\ UNCHANGED <<env, pc, loc, giveaways, nextKey, tick>>

\* -- /license_delete ----------------------------------------------------------

\* Whether `key` is the active premium key of the guild it is bound to.
IsActiveKeyOf(key, guild_id) ==
    /\ guild_id \in DOMAIN CONFIG_DB
    /\ CONFIG_DB[guild_id].premium.active
    /\ CONFIG_DB[guild_id].premium.license_key = key

\* The command up to its first await: an unknown key is reported; for a used key
\* that is its guild's active one the guild is deactivated and saved, owner.send
\* is called (notices counts these calls) and the handler suspends in it; else
\* it suspends at the followup.
LicenseDeleteBegin(p, key) ==
    /\ pc[p] = "idle"
    /\ IF key \notin DOMAIN LICENSE_DB
       THEN /\ Finish(p, "key_not_found", 0)
            /\ UNCHANGED <<CONFIG_DB, configFile, notices>>
       ELSE LET guild_id == LICENSE_DB[key].guild_id IN
            /\ Silent
            /\ loc' = [loc EXCEPT ![p] = [IdleLoc EXCEPT !.key = key, !.guild_id = guild_id]]
            /\ IF LICENSE_DB[key].is_used /\ IsActiveKeyOf(key, guild_id)
               THEN /\ CONFIG_DB' = [CONFIG_DB EXCEPT
                          ![guild_id].premium.active = FALSE,
                          ![guild_id].premium.removal_reason = "License deleted by owner."]
                    /\ \E o \in SaveOutcomes :
                          configFile' = save_data(configFile, JsonDumpIntKeys(CONFIG_DB'), o)
                    /\ notices' = [notices EXCEPT ![guild_id].deleted = @ + 1]
                    /\ pc' = [pc EXCEPT ![p] = "delete_notify"]
               ELSE /\ UNCHANGED <<CONFIG_DB, configFile, notices>>
                    /\ pc' = [pc EXCEPT ![p] = "delete_reply"]
    /\ UNCHANGED <<env, giveaways, LICENSE_DB, licensesFile, nextKey, tick>>

\* await guild.owner.send returns or raises, and either way the handler goes on
\* to its followup.
LicenseDeleteNotify(p) ==
    /\ pc[p] = "delete_notify"
    /\ pc' = [pc EXCEPT ![p] = "delete_reply"]
    /\ Silent
    /\ UNCHANGED <<env, loc, giveaways, licenses>>

\* After `await interaction.followup.send`: del LICENSE_DB[key], which raises
\* KeyError when the key is gone by now, and the save.
LicenseDeleteFinish(p) ==
    /\ pc[p] = "delete_reply"
    /\ IF loc[p].key \in DOMAIN LICENSE_DB
       THEN /\ LICENSE_DB' = Remove(LICENSE_DB, loc[p].key)
            /\ \E o \in SaveOutcomes : licensesFile' = save_data(licensesFile, LICENSE_DB', o)
            /\ Finish(p, "deleted", 0)
       ELSE /\ Finish(p, "error", 0)
            /\ UNCHANGED <<LICENSE_DB, licensesFile>>
    /\ UNCHANGED <<env, giveaways, CONFIG_DB, configFile, nextKey, tick, notices>>

\* -- check_licenses -----------------------------------------------------------

\* current_time > expires_ts in place of >=, and without the test of `active`.
ExpiredGuildsStrict(current_time) ==
    {guild_id \in DOMAIN CONFIG_DB :
        LET premium_info == CONFIG_DB[guild_id].premium IN
        /\ premium_info.expires_at # PyStr("LIFETIME")
        /\ ~IntRaises(premium_info.expires_at)
        /\ current_time > premium_info.expires_at.n}

\* The guilds the scan of check_licenses appends to expired_guild_ids at
\* `current_time`: an expires_at that int() rejects is reported and skipped.
ExpiredGuilds(current_time) ==
    {guild_id \in DOMAIN CONFIG_DB :
        LET premium_info == CONFIG_DB[guild_id].premium IN
        /\ premium_info.active
        /\ premium_info.expires_at # PyStr("LIFETIME")
        /\ ~IntRaises(premium_info.expires_at)
        /\ current_time >= premium_info.expires_at.n}

\* The lists that hold each member of S once: CONFIG_DB.items() runs in the
\* order the guilds were inserted, which the model does not keep.
Orders(S) ==
    {q \in [1..Cardinality(S) -> S] : \A a, b \in DOMAIN q : a # b => q[a] # q[b]}

\* The reason is recorded and `active` is left as it was.
DeactivateKeepsActive(config, guild_id, current_time) ==
    IF guild_id \in DOMAIN config /\ config[guild_id].premium # NoPremium
    THEN [config EXCEPT ![guild_id].premium.inactivated_at = current_time,
                        ![guild_id].premium.removal_reason = "Expired automatically."]
    ELSE config

\* Step 1 of the loop body for one guild: keep the record, mark it inactive.
Deactivate(config, guild_id, current_time) ==
    IF guild_id \in DOMAIN config /\ config[guild_id].premium # NoPremium
    THEN [config EXCEPT ![guild_id].premium.active = FALSE,
                        ![guild_id].premium.inactivated_at = current_time,
                        ![guild_id].premium.removal_reason = "Expired automatically."]
    ELSE config

\* tasks.loop(minutes=10) starts the next iteration of the loop.
CheckLicensesWake ==
    /\ tick.pc = "idle"
    /\ tick' = [tick EXCEPT !.pc = "scan"]
    /\ Silent
    /\ UNCHANGED <<env, pc, loc, giveaways, LICENSE_DB, CONFIG_DB, licensesFile,
                   configFile, nextKey, notices>>

\* The scan, and with no await after it the deactivation of the first expired
\* guild and the call of that guild's owner.send (notices counts these calls),
\* in which the loop suspends.  Nothing expired: the iteration ends without a
\* save.
CheckLicensesScan ==
    /\ tick.pc = "scan"
    /\ \E expired_guild_ids \in Orders(ExpiredGuilds(now)) :
          IF expired_guild_ids = <<>>
          THEN /\ tick' = IdleTick
               /\ UNCHANGED <<CONFIG_DB, notices>>
          ELSE /\ tick' = [pc |-> "notify", current_time |-> now,
                           expired_guild_ids |-> expired_guild_ids, i |-> 1,
                           raised |-> {}]
               /\ CONFIG_DB' = Deactivate(CONFIG_DB, expired_guild_ids[1], now)
               /\ notices' = [notices EXCEPT ![expired_guild_ids[1]].expired = @ + 1]
    /\ Silent
    /\ UNCHANGED <<env, pc, loc, giveaways, LICENSE_DB, licensesFile, configFile,
                   nextKey>>

\* What `await guild.owner.send(...)` can do: return, or raise (Forbidden when
\* the owner takes no direct messages, HTTPException).
SendOutcomes == {"sent", "raised"}

\* A try without its except: a send that raises ends the iteration.
CaughtNothing(outcome) == outcome = "sent"

\* try: ... await guild.owner.send(...) / except Exception as e: print(...)
Caught(outcome) == outcome \in SendOutcomes

\* owner.send for guild i returns or raises, and either way the loop goes on:
\* with no await in between the next guild of the list is deactivated and its
\* owner.send called; after the last one the config is saved and the iteration
\* ends.  tick.raised keeps the guilds whose send raised in this iteration.
NotifyReturns(outcome) ==
    /\ tick.pc = "notify"
    /\ LET raised == IF outcome = "raised"
                     THEN tick.raised \cup {tick.expired_guild_ids[tick.i]}
                     ELSE tick.raised IN
       IF ~Caught(outcome)
       THEN /\ tick' = IdleTick
            /\ UNCHANGED <<CONFIG_DB, configFile, notices>>
       ELSE IF tick.i < Len(tick.expired_guild_ids)
       THEN /\ tick' = [tick EXCEPT !.i = @ + 1, !.raised = raised]
            /\ CONFIG_DB' = Deactivate(CONFIG_DB, tick.expired_guild_ids[tick.i + 1],
                                       tick.current_time)
            /\ notices' =
                  [notices EXCEPT ![tick.expired_guild_ids[tick.i + 1]].expired = @ + 1]
            /\ UNCHANGED configFile
       ELSE /\ tick' = IdleTick
            /\ \E o \in SaveOutcomes :
                  configFile' = save_data(configFile, JsonDumpIntKeys(CONFIG_DB), o)
            /\ UNCHANGED <<CONFIG_DB, notices>>
    /\ Silent
    /\ UNCHANGED <<env, pc, loc, giveaways, LICENSE_DB, licensesFile, nextKey>>

CheckLicensesNotify == \E outcome \in SendOutcomes : NotifyReturns(outcome)

\* -- time and the process ----------------------------------------------------

ClockMinute ==
    /\ now + SecondsPerMinute <= MaxMinutes * SecondsPerMinute
    /\ now' = now + SecondsPerMinute
    /\ Silent
    /\ UNCHANGED <<disk, restarts, pc, loc, giveaways, licenses>>

ClockDay ==
    /\ now + SecondsPerDay <= MaxDays * SecondsPerDay
    /\ now' = now + SecondsPerDay
    /\ Silent
    /\ UNCHANGED <<disk, restarts, pc, loc, giveaways, licenses>>

\* Writes to the files start to fail (disk full, permissions), or work again.
DiskFault ==
    /\ disk' = IF disk = "ok" THEN "faulty" ELSE "ok"
    /\ Silent
    /\ UNCHANGED <<now, restarts, pc, loc, giveaways, licenses>>

\* The process dies (every suspended handler with it) and is started again:
\* load_data, then setup_hook creates the file when it does not exist.
Restart ==
    /\ restarts < MaxRestarts
    /\ restarts' = restarts + 1
    /\ ACTIVE_GIVEWAYS' = LoadGiveaways(giveawaysFile)
    /\ CONFIG_DB' = LoadConfig(configFile)
    /\ LICENSE_DB' = LoadLicenses(licensesFile)
    /\ \E o \in SaveOutcomes :
          /\ giveawaysFile' =
                CreateIfMissing(giveawaysFile, JsonDumpIntKeys(ACTIVE_GIVEWAYS'), o)
          /\ configFile' = CreateIfMissing(configFile, JsonDumpIntKeys(CONFIG_DB'), o)
          /\ licensesFile' = CreateIfMissing(licensesFile, LICENSE_DB', o)
    /\ pc' = [p \in Handlers |-> "idle"]
    /\ loc' = [p \in Handlers |-> IdleLoc]
    /\ reply' = NoReply
    /\ tick' = IdleTick
    /\ UNCHANGED <<now, disk, nextMessageId, history, nextKey, notices>>

Registries == {"giveaways", "config", "licenses"}

\* A start of the process in which reading the files in `failed` raises in
\* open() or json.load although the files are as they were written: load_data
\* prints the error and leaves those registries {}; the files exist, so
\* setup_hook does not touch them.
RestartReadFails ==
    /\ restarts < MaxRestarts
    /\ restarts' = restarts + 1
    /\ \E failed \in SUBSET Registries \ {{}} :
          /\ ACTIVE_GIVEWAYS' =
                IF "giveaways" \in failed THEN EmptyDb ELSE LoadGiveaways(giveawaysFile)
          /\ CONFIG_DB' = IF "config" \in failed THEN EmptyDb ELSE LoadConfig(configFile)
          /\ LICENSE_DB' =
                IF "licenses" \in failed THEN EmptyDb ELSE LoadLicenses(licensesFile)
    /\ \E o \in SaveOutcomes :
          /\ giveawaysFile' =
                CreateIfMissing(giveawaysFile, JsonDumpIntKeys(ACTIVE_GIVEWAYS'), o)
          /\ configFile' = CreateIfMissing(configFile, JsonDumpIntKeys(CONFIG_DB'), o)
          /\ licensesFile' = CreateIfMissing(licensesFile, LICENSE_DB', o)
    /\ pc' = [p \in Handlers |-> "idle"]
    /\ loc' = [p \in Handlers |-> IdleLoc]
    /\ reply' = NoReply
    /\ tick' = IdleTick
    /\ UNCHANGED <<now, disk, nextMessageId, history, nextKey, notices>>

\* ---------------------------------------------------------- specifications

\* The first start of the process: setup_hook has written the empty files.
Init ==
    /\ now = 0
    /\ disk = "ok"
    /\ restarts = 0
    /\ pc = [p \in Handlers |-> "idle"]
    /\ loc = [p \in Handlers |-> IdleLoc]
    /\ reply = NoReply
    /\ ACTIVE_GIVEWAYS = EmptyDb
    /\ giveawaysFile = [state |-> "ok", doc |-> EmptyDb]
    /\ nextMessageId = 1
    /\ obtained = [m \in AllMessageIds |-> 0]
    /\ announced = [m \in AllMessageIds |-> 0]
    /\ edited = [m \in AllMessageIds |-> 0]
    /\ LICENSE_DB = EmptyDb
    /\ CONFIG_DB = EmptyDb
    /\ licensesFile = [state |-> "ok", doc |-> EmptyDb]
    /\ configFile = [state |-> "ok", doc |-> EmptyDb]
    /\ nextKey = 1
    /\ tick = IdleTick
    /\ notices = [g \in Guilds |-> NoNotices]

StartGiveawayNext ==
    \/ \E p \in Handlers, d \in Durations : StartGiveawayBegin(p, d)
    \/ \E p \in Handlers : StartGiveawaySend(p)
    \/ \E p \in Handlers : StartGiveawayRegister(p)

EndGiveawayNext ==
    \/ \E p \in Handlers, g \in GiveawayIds : EndGiveawayClaim(p, g)
    \/ \E p \in Handlers : EndGiveawayCollect(p)
    \/ \E p \in Handlers : EndGiveawayAnnounce(p)
    \/ \E p \in Handlers : EndGiveawayEdit(p)

LicenseNext ==
    \/ \E d \in Terms : LicenseGenerate(d)
    \/ \E k \in Keys, g \in Guilds : LicenseGuild(k, g)
    \/ \E k \in Keys : LicenseDeleteBegin(1, k)
    \/ \E p \in Handlers : LicenseDeleteNotify(p)
    \/ \E p \in Handlers : LicenseDeleteFinish(p)
    \/ CheckLicensesWake
    \/ CheckLicensesScan
    \/ CheckLicensesNotify
    \/ ClockDay

\* The giveaway commands in one run of the process.
GiveawaySpec == Init /\ [][StartGiveawayNext \/ EndGiveawayNext \/ ClockMinute]_vars

\* The giveaway commands with failing writes, crashes and restarts of the process.
GiveawayRestartSpec ==
    Init /\ [][StartGiveawayNext \/ EndGiveawayNext \/ DiskFault \/ Restart]_vars

\* The license commands and the check_licenses loop in one run of the process.
LicenseSpec == Init /\ [][LicenseNext]_vars

\* All three registries with failing writes, crashes and restarts of the process:
\* /start_giveaway, /license_generate and /license_guild, one command at a time
\* and in one guild.
PersistenceNext ==
    \/ \E d \in Durations : StartGiveawayBegin(1, d)
    \/ StartGiveawaySend(1)
    \/ StartGiveawayRegister(1)
    \/ \E d \in Terms : LicenseGenerate(d)
    \/ \E k \in Keys : LicenseGuild(k, 1)
    \/ DiskFault
    \/ Restart

PersistenceSpec == Init /\ [][PersistenceNext]_vars

\* The three registries with writes that succeed and starts of the process in
\* which a file may fail to be read: /start_giveaway, /license_generate and
\* /license_guild, one command at a time and in one guild.
LoadFailureNext ==
    \/ \E d \in Durations : StartGiveawayBegin(1, d)
    \/ StartGiveawaySend(1)
    \/ StartGiveawayRegister(1)
    \/ \E d \in Terms : LicenseGenerate(d)
    \/ \E k \in Keys : LicenseGuild(k, 1)
    \/ Restart
    \/ RestartReadFails

LoadFailureSpec == Init /\ [][LoadFailureNext]_vars

\* The license commands and the check_licenses loop with keys that outlast a
\* day, so that a key can be bound days after it was generated.
LongTermNext ==
    \/ \E d \in LongTerms : LicenseGenerate(d)
    \/ \E k \in Keys, g \in Guilds : LicenseGuild(k, g)
    \/ \E k \in Keys : LicenseDeleteBegin(1, k)
    \/ \E p \in Handlers : LicenseDeleteNotify(p)
    \/ \E p \in Handlers : LicenseDeleteFinish(p)
    \/ CheckLicensesWake
    \/ CheckLicensesScan
    \/ CheckLicensesNotify
    \/ ClockDay

LongTermSpec == Init /\ [][LongTermNext]_vars

\* One caller who starts and ends giveaways one command after the other, each
\* command run to its end before the next is invoked.
ReuseNext ==
    \/ \E d \in Durations : StartGiveawayBegin(1, d)
    \/ ReuseSend(1)
    \/ StartGiveawayRegister(1)
    \/ \E g \in GiveawayIds : EndGiveawayClaim(1, g)
    \/ EndGiveawayCollect(1)
    \/ EndGiveawayAnnounce(1)
    \/ EndGiveawayEdit(1)

GiveawayReuseSpec == Init /\ [][ReuseNext]_vars

\* One moderator who starts and ends giveaways and one owner who generates
\* license keys, binds them in one guild and deletes them, each of them one
\* command at a time.
CommandsNext ==
    \/ \E d \in Durations : StartGiveawayBegin(1, d)
    \/ StartGiveawaySend(1)
    \/ StartGiveawayRegister(1)
    \/ \E g \in GiveawayIds : EndGiveawayClaim(1, g)
    \/ EndGiveawayCollect(1)
    \/ EndGiveawayAnnounce(1)
    \/ EndGiveawayEdit(1)
    \/ \E d \in Terms : LicenseGenerate(d)
    \/ \E k \in Keys : LicenseGuild(k, 1)
    \/ \E k \in Keys : LicenseDeleteBegin(2, k)
    \/ LicenseDeleteNotify(2)
    \/ LicenseDeleteFinish(2)

CommandsSpec == Init /\ [][CommandsNext]_vars

\* Two /license_delete handlers at once, with /license_generate and
\* /license_guild in one guild between their awaits.
DeleteRaceNext ==
    \/ \E d \in Terms : LicenseGenerate(d)
    \/ \E k \in Keys : LicenseGuild(k, 1)
    \/ \E p \in Handlers, k \in Keys : LicenseDeleteBegin(p, k)
    \/ \E p \in Handlers : LicenseDeleteNotify(p)
    \/ \E p \in Handlers : LicenseDeleteFinish(p)
    \/ ClockDay

DeleteRaceSpec == Init /\ [][DeleteRaceNext]_vars

\* check_licenses with /license_generate and /license_guild at its awaits, and a
\* third key to bind while an iteration is suspended.
RaceNext ==
    \/ \E d \in Terms : RaceGenerate(d)
    \/ \E k \in RaceKeys, g \in Guilds : LicenseGuild(k, g)
    \/ CheckLicensesWake
    \/ CheckLicensesScan
    \/ CheckLicensesNotify
    \/ ClockDay

SweepRaceSpec == Init /\ [][RaceNext]_vars

\* check_licenses in a process that can die at any of its awaits and be started
\* again.
SweepRestartNext ==
    \/ \E d \in Terms : LicenseGenerate(d)
    \/ \E k \in Keys, g \in Guilds : LicenseGuild(k, g)
    \/ CheckLicensesWake
    \/ CheckLicensesScan
    \/ CheckLicensesNotify
    \/ ClockDay
    \/ Restart

SweepRestartSpec == Init /\ [][SweepRestartNext]_vars

\* The writers of the guild configuration and of the licenses in one run of the
\* process, with writes that succeed: the license commands, check_licenses and
\* /set_giveaway_channel.
ConfigNext ==
    \/ \E g \in Guilds, c \in Channels : SetGiveawayChannel(g, c)
    \/ LicenseNext

ConfigSpec == Init /\ [][ConfigNext]_vars

\* A bot nobody sends /end_giveaway to: giveaways are started, time passes, and
\* the one background loop of the program, check_licenses, runs.  The event loop
\* resumes every suspended handler, the clock advances and tasks.loop fires.
SweepNext == StartGiveawayNext \/ ClockMinute \/ CheckLicensesWake \/ CheckLicensesScan

SweepFairSpec ==
    /\ Init
    /\ [][SweepNext]_vars
    /\ WF_vars(ClockMinute)
    /\ WF_vars(CheckLicensesWake)
    /\ WF_vars(CheckLicensesScan)
    /\ \A p \in Handlers : WF_vars(StartGiveawaySend(p)) /\ WF_vars(StartGiveawayRegister(p))

\* ------------------------------------------------------------------ claims

\* The message ids of the giveaways in the active registry.
ActiveMessages == {ACTIVE_GIVEWAYS[g].message_id : g \in DOMAIN ACTIVE_GIVEWAYS}

Completing(p) == pc[p] \in {"end_fetch", "end_announce", "end_edit"}

\* C1: whatever the interleaving of /end_giveaway attempts, each giveaway is
\* obtained by at most one attempt, which alone may announce and edit (each at
\* most once); an attempt on an active id pops the record and proceeds, an attempt
\* on an id that is not active replies "not active" and changes nothing.
C1_OneAttemptObtains ==
    /\ [](\A m \in MessageIds :
            /\ obtained[m] <= 1
            /\ announced[m] <= obtained[m]
            /\ edited[m] <= announced[m])
    /\ [][\A p \in Handlers, g \in GiveawayIds :
            EndGiveawayClaim(p, g) =>
                IF g \in DOMAIN ACTIVE_GIVEWAYS
                THEN /\ pc'[p] = "end_fetch"
                     /\ loc'[p].data = ACTIVE_GIVEWAYS[g]
                     /\ g \notin DOMAIN ACTIVE_GIVEWAYS'
                     /\ obtained'[ACTIVE_GIVEWAYS[g].message_id] = 1
                ELSE /\ reply' = [text |-> "not_active", arg |-> g]
                     /\ pc'[p] = "idle"
                     /\ UNCHANGED <<ACTIVE_GIVEWAYS, history>>]_vars

\* C1's case: an attempt was told "not active" for the id another attempt obtained
\* and is still completing.
C1_Witness ==
    \E p \in Handlers :
        /\ Completing(p)
        /\ reply = [text |-> "not_active", arg |-> loc[p].giveaway_id]

\* The giveaway stored under g is no longer in the registry after the step.
LeftRegistry(g) ==
    \/ g \notin DOMAIN ACTIVE_GIVEWAYS'
    \/ ACTIVE_GIVEWAYS'[g].message_id # ACTIVE_GIVEWAYS[g].message_id

\* C2 as stated: a giveaway leaves the active registry only at a time t >= its
\* end_time.
C2_ClosedOnlyAfterDeadline ==
    [][\A g \in DOMAIN ACTIVE_GIVEWAYS :
         LeftRegistry(g) => now >= ACTIVE_GIVEWAYS[g].end_time]_vars

\* C2 as amended: in one run of the process a giveaway leaves the active registry
\* only in a step of /end_giveaway for its id, at the time of that call whatever
\* its end_time, or in the step of a /start_giveaway that stores under its id.
C2_ClosedOnlyByCommand ==
    [][\A g \in DOMAIN ACTIVE_GIVEWAYS :
         LeftRegistry(g) =>
            \E p \in Handlers :
               \/ EndGiveawayClaim(p, g)
               \/ StartGiveawayRegister(p) /\ loc[p].giveaway_id = g]_vars

\* C2's case: /end_giveaway has popped a giveaway whose end_time is still ahead.
C2_Witness ==
    \E p \in Handlers : pc[p] = "end_fetch" /\ now < loc[p].data.end_time

\* C3: a giveaway that was claimed for completion is never in the active registry
\* again, restarts and failed writes included.
C3_ClaimedNeverActiveAgain ==
    \A m \in MessageIds : obtained[m] > 0 => m \notin ActiveMessages

\* C4: a giveaway that is in the active registry when its end_time has passed is
\* eventually removed without any /end_giveaway.
C4_ExpiredEventuallySwept ==
    \A g \in GiveawayIds :
        (g \in DOMAIN ACTIVE_GIVEWAYS /\ now >= ACTIVE_GIVEWAYS[g].end_time)
            ~> (g \notin DOMAIN ACTIVE_GIVEWAYS)

\* A term that never ends, as the license and the guild records store it.
NeverExpires(v) == v \in {PyStr("N/A"), PyStr("LIFETIME")}

\* The key is never-expiring or its expiry timestamp is ahead.
KeyUnexpired(k) ==
    \/ NeverExpires(LICENSE_DB[k].expiry_timestamp)
    \/ LICENSE_DB[k].expiry_timestamp.kind = "int" /\ LICENSE_DB[k].expiry_timestamp.n > now

\* The guild holds an active entitlement that has not expired.
HasEntitlement(g) ==
    /\ g \in DOMAIN CONFIG_DB
    /\ CONFIG_DB[g].premium.active
    /\ \/ NeverExpires(CONFIG_DB[g].premium.expires_at)
       \/ /\ CONFIG_DB[g].premium.expires_at.kind = "int"
          /\ CONFIG_DB[g].premium.expires_at.n > now

Bound(k, g) ==
    /\ k \in DOMAIN LICENSE_DB'
    /\ LICENSE_DB'[k].is_used
    /\ LICENSE_DB'[k].guild_id = g
    /\ g \in DOMAIN CONFIG_DB'
    /\ CONFIG_DB'[g].premium.active
    /\ CONFIG_DB'[g].premium.license_key = k

\* C5: /license_guild of key k in guild g succeeds if and only if k is in the
\* registry, unexpired, unused or bound to g, and g holds no active unexpired
\* entitlement; on success k is used by g and g is premium with key k.
C5_BindSucceedsIff ==
    [][\A k \in Keys, g \in Guilds :
         LicenseGuild(k, g) =>
            /\ (reply'.text = "bind_ok") <=>
                  /\ k \in DOMAIN LICENSE_DB
                  /\ KeyUnexpired(k)
                  /\ ~LICENSE_DB[k].is_used \/ LICENSE_DB[k].guild_id = g
                  /\ ~HasEntitlement(g)
            /\ reply'.text = "bind_ok" => Bound(k, g)]_vars

\* C6: while guild g holds an active entitlement from key k1, binding another
\* unused valid key k2 in g is rejected and changes neither g's premium record
\* nor k2's record.
C6_SecondKeyRejected ==
    [][\A k2 \in Keys, g \in Guilds :
         ( /\ LicenseGuild(k2, g)
           /\ HasEntitlement(g)
           /\ CONFIG_DB[g].premium.license_key # k2
           /\ k2 \in DOMAIN LICENSE_DB
           /\ ~LICENSE_DB[k2].is_used
           /\ KeyUnexpired(k2) )
         => /\ reply'.text # "bind_ok"
            /\ CONFIG_DB'[g] = CONFIG_DB[g]
            /\ LICENSE_DB'[k2] = LICENSE_DB[k2]]_vars

\* C7: a guild whose active entitlement comes from a never-expiring key that is
\* still in the registry is reported premium, with expiry LIFETIME.
C7_LifetimeReportedPremium ==
    \A g \in DOMAIN CONFIG_DB :
        LET premium_info == CONFIG_DB[g].premium IN
        ( /\ premium_info.active
          /\ premium_info.license_key \in DOMAIN LICENSE_DB
          /\ LICENSE_DB[premium_info.license_key].expires_at = "LIFETIME"
          /\ LICENSE_DB[premium_info.license_key].guild_id = g )
        => is_guild_premium(g) = <<TRUE, PyStr("LIFETIME")>>

\* No command handler and no iteration of check_licenses is suspended.
Quiescent == (\A p \in Handlers : pc[p] = "idle") /\ tick.pc # "notify"

\* C8: in every quiescent state the key of each active entitlement is in the
\* license registry, used, and bound to that guild.
C8_ActiveKeyInRegistry ==
    Quiescent =>
        \A g \in DOMAIN CONFIG_DB :
            CONFIG_DB[g].premium.active =>
                /\ CONFIG_DB[g].premium.license_key \in DOMAIN LICENSE_DB
                /\ LICENSE_DB[CONFIG_DB[g].premium.license_key].is_used
                /\ LICENSE_DB[CONFIG_DB[g].premium.license_key].guild_id = g

\* The guilds whose premium record is active with a finite expires_at <= t.
DueGuilds(t) ==
    {g \in DOMAIN CONFIG_DB :
        /\ CONFIG_DB[g].premium.active
        /\ CONFIG_DB[g].premium.expires_at.kind = "int"
        /\ CONFIG_DB[g].premium.expires_at.n <= t}

Selected(t) == {t.expired_guild_ids[i] : i \in DOMAIN t.expired_guild_ids}

ExpiredRecord(config, g) ==
    /\ ~config[g].premium.active
    /\ config[g].premium.removal_reason = "Expired automatically."

\* C9: an iteration of check_licenses takes every guild that is active with a
\* finite expires_at <= now, and sets each guild it took to active=false with
\* reason "Expired automatically." before it ends; an iteration never takes an
\* inactive guild, changes no record but the one it is at, and no owner is
\* notified of an expiry twice for one activation.
C9_ExpiredOnceByNextTick ==
    /\ [](\A g \in Guilds : notices[g].expired <= 1)
    /\ [][/\ CheckLicensesScan =>
               /\ DueGuilds(now) \subseteq Selected(tick')
               /\ \A g \in Selected(tick') : CONFIG_DB[g].premium.active
          /\ (CheckLicensesScan \/ CheckLicensesNotify) =>
               IF tick'.pc = "notify"
               THEN /\ tick'.i = (IF tick.pc = "notify" THEN tick.i + 1 ELSE 1)
                    /\ ExpiredRecord(CONFIG_DB', tick'.expired_guild_ids[tick'.i])
                    /\ \A g \in DOMAIN CONFIG_DB \ {tick'.expired_guild_ids[tick'.i]} :
                          CONFIG_DB'[g] = CONFIG_DB[g]
               ELSE /\ tick.pc = "notify" => tick.i = Len(tick.expired_guild_ids)
                    /\ CONFIG_DB' = CONFIG_DB]_vars

\* C9's case: a guild was expired by an iteration, its owner notified once, and
\* the loop has been woken again.
C9_Witness ==
    \E g \in DOMAIN CONFIG_DB :
        /\ ExpiredRecord(CONFIG_DB, g)
        /\ notices[g].expired = 1
        /\ tick.pc = "scan"

\* C10: the guilds an iteration of check_licenses selects are exactly the guilds
\* whose premium record is active with a finite expires_at <= the current time,
\* each once.
C10_SelectsExactlyDue ==
    [][CheckLicensesScan =>
         /\ Selected(tick') = DueGuilds(now)
         /\ Len(tick'.expired_guild_ids) = Cardinality(DueGuilds(now))
         /\ (tick'.pc = "idle") <=> (DueGuilds(now) = {})]_vars

\* C10's case: an iteration selected an expired guild and left out a guild whose
\* entitlement is active and never expires, or active and not yet due.
C10_Witness ==
    /\ tick.pc = "notify"
    /\ tick.i = 1
    /\ \E g \in DOMAIN CONFIG_DB \ Selected(tick) :
          /\ CONFIG_DB[g].premium.active
          /\ \/ NeverExpires(CONFIG_DB[g].premium.expires_at)
             \/ CONFIG_DB[g].premium.expires_at.n > tick.current_time

\* The guild the iteration of check_licenses writes active=False to in this step.
SweepWrites(g) ==
    /\ CheckLicensesScan \/ CheckLicensesNotify
    /\ tick'.pc = "notify"
    /\ tick'.expired_guild_ids[tick'.i] = g

\* C11: whatever /license_guild does at the awaits of an iteration of
\* check_licenses, the iteration writes active=false to a guild only when that
\* guild's record is, at that moment, active with a finite expires_at <= now: an
\* entitlement bound during the iteration is not deactivated by it.
C11_SweepRechecksBeforeWrite ==
    [][\A g \in Guilds : SweepWrites(g) => g \in DueGuilds(now)]_vars

\* C12: an entitlement (one bind of a key in a guild) is deactivated at most
\* once, by the expiry loop or by the deletion of its key: check_licenses writes
\* active=false only to a record that is still active, and the owner gets at
\* most one notification, of either kind, for it.
C12_DeactivatedOnce ==
    /\ [](\A g \in Guilds : notices[g].expired + notices[g].deleted <= 1)
    /\ [][\A g \in Guilds : SweepWrites(g) => CONFIG_DB[g].premium.active]_vars

\* C13: in one run of the process a license that is used stays used and bound
\* to the same guild in every step that keeps it in the registry, and it leaves
\* the registry only in the last step of a /license_delete of that key.
C13_UsedKeyStaysBound ==
    [][\A k \in DOMAIN LICENSE_DB :
         LICENSE_DB[k].is_used =>
            IF k \in DOMAIN LICENSE_DB'
            THEN /\ LICENSE_DB'[k].is_used
                 /\ LICENSE_DB'[k].guild_id = LICENSE_DB[k].guild_id
            ELSE \E p \in Handlers : LicenseDeleteFinish(p) /\ loc[p].key = k]_vars

\* C13's case: a used key was offered in another guild, and refused.
C13_Witness ==
    /\ reply.text = "key_in_use"
    /\ \E k \in DOMAIN LICENSE_DB : LICENSE_DB[k].is_used

\* The guilds whose premium record is active with license_key = k.
HoldersOf(k) ==
    {g \in DOMAIN CONFIG_DB :
        CONFIG_DB[g].premium.active /\ CONFIG_DB[g].premium.license_key = k}

\* C14: for each license key at most one guild has a premium record that is
\* active with that key.
C14_KeyActiveInOneGuild ==
    \A k \in Keys : Cardinality(HoldersOf(k)) <= 1

\* C14's case: a key that never expires is used and active in one guild while
\* the other guild holds no active entitlement and could take a key.
C14_Witness ==
    \E k \in DOMAIN LICENSE_DB, g \in Guilds :
        /\ LICENSE_DB[k].expires_at = "LIFETIME"
        /\ HoldersOf(k) = {g}
        /\ \E h \in Guilds \ {g} : h \notin DOMAIN CONFIG_DB \/ ~CONFIG_DB[h].premium.active

\* The guild's record is active with a finite expires_at that has passed.
Overdue(g) ==
    /\ g \in DOMAIN CONFIG_DB
    /\ CONFIG_DB[g].premium.active
    /\ CONFIG_DB[g].premium.expires_at.kind = "int"
    /\ CONFIG_DB[g].premium.expires_at.n <= now

\* C15 as stated: every premium record with active=true has an expires_at that is
\* 'never' or strictly later than the current time.
C15_ActiveImpliesUnexpired ==
    \A g \in DOMAIN CONFIG_DB :
        CONFIG_DB[g].premium.active =>
            \/ NeverExpires(CONFIG_DB[g].premium.expires_at)
            \/ /\ CONFIG_DB[g].premium.expires_at.kind = "int"
               /\ CONFIG_DB[g].premium.expires_at.n > now

\* C15 as amended: a premium record with active=true has an expires_at that is
\* 'N/A', or strictly later than the current time, or it has passed and the
\* record waits for check_licenses: then is_guild_premium reports the guild as
\* not premium with that timestamp, and a scan made now would select the guild.
C15_ActiveUnexpiredOrAwaitingSweep ==
    \A g \in DOMAIN CONFIG_DB :
        CONFIG_DB[g].premium.active =>
            \/ NeverExpires(CONFIG_DB[g].premium.expires_at)
            \/ /\ CONFIG_DB[g].premium.expires_at.kind = "int"
               /\ CONFIG_DB[g].premium.expires_at.n > now
            \/ /\ Overdue(g)
               /\ is_guild_premium(g) = <<FALSE, CONFIG_DB[g].premium.expires_at>>
               /\ g \in ExpiredGuilds(now)

\* C15's case: a record is active at the very second its expires_at is reached,
\* and no iteration of check_licenses is under way.
C15_Witness ==
    \E g \in Guilds :
        /\ Overdue(g)
        /\ CONFIG_DB[g].premium.expires_at.n = now
        /\ tick.pc = "idle"

\* Key k is used by guild g and g's premium record is active with key k.
BoundAndActive(k, g) ==
    /\ k \in DOMAIN LICENSE_DB
    /\ LICENSE_DB[k].is_used
    /\ LICENSE_DB[k].guild_id = g
    /\ g \in DOMAIN CONFIG_DB
    /\ CONFIG_DB[g].premium.active
    /\ CONFIG_DB[g].premium.license_key = k

\* C16: /license_guild of a key in the guild it is already bound to and active
\* in, accepted or rejected, leaves the key's is_used and guild_id and the
\* guild's active, expires_at and license_key as the first bind left them.
C16_RebindChangesNothing ==
    [][\A k \in Keys, g \in Guilds :
         (LicenseGuild(k, g) /\ BoundAndActive(k, g)) =>
            /\ k \in DOMAIN LICENSE_DB' /\ g \in DOMAIN CONFIG_DB'
            /\ LICENSE_DB'[k].is_used
            /\ LICENSE_DB'[k].guild_id = g
            /\ CONFIG_DB'[g].premium.active
            /\ CONFIG_DB'[g].premium.expires_at = CONFIG_DB[g].premium.expires_at
            /\ CONFIG_DB'[g].premium.license_key = k]_vars

\* C16's case: the one key of the registry is bound and active in a guild, and
\* a /license_guild was answered "already premium": it offered that key in that
\* guild again.
C16_Witness ==
    /\ reply.text = "already_premium"
    /\ \E k \in Keys, g \in Guilds : DOMAIN LICENSE_DB = {k} /\ BoundAndActive(k, g)

\* The record /start_giveaway of handler p is about to store is in the registry
\* after the step.
Stored(p) ==
    /\ loc[p].giveaway_id \in DOMAIN ACTIVE_GIVEWAYS'
    /\ ACTIVE_GIVEWAYS'[loc[p].giveaway_id].message_id = loc[p].data.message_id

\* C17: while writes to the files fail, every mutation is still made in memory
\* and its command goes on as if the write had worked: /start_giveaway stores the
\* giveaway and confirms it, /end_giveaway pops the giveaway and goes on to the
\* announcement, /license_generate stores the key and shows it, /license_guild
\* binds the key and confirms the activation.
C17_FailedWriteKeepsMemory ==
    [][disk = "faulty" =>
         /\ \A p \in Handlers :
               StartGiveawayRegister(p) => (reply'.text = "start_ok" <=> Stored(p))
         /\ \A p \in Handlers, g \in GiveawayIds :
               (EndGiveawayClaim(p, g) /\ g \in DOMAIN ACTIVE_GIVEWAYS) =>
                  g \notin DOMAIN ACTIVE_GIVEWAYS' /\ pc'[p] = "end_fetch"
         /\ \A d \in Terms :
               LicenseGenerate(d) =>
                  nextKey \in DOMAIN LICENSE_DB' /\ reply'.text = "generated"
         /\ \A k \in Keys, g \in Guilds :
               (LicenseGuild(k, g) /\ BindVerdict(k, g) = "bind_ok") =>
                  Bound(k, g) /\ reply'.text = "bind_ok"]_vars

\* licenses.json does not say that key k is used.
NotUsedOnFile(k) ==
    \/ licensesFile.state # "ok"
    \/ k \notin DOMAIN licensesFile.doc
    \/ ~licensesFile.doc[k].is_used

\* C17's case: a bind was confirmed while the writes fail; the key is used in
\* memory and licenses.json does not hold that.
C17_Witness ==
    /\ disk = "faulty"
    /\ reply.text = "bind_ok"
    /\ \E k \in DOMAIN LICENSE_DB : LICENSE_DB[k].is_used /\ NotUsedOnFile(k)

\* C18: while writes to the files fail, no command that made a write answers
\* with its plain confirmation: the reply tells the caller of the failed write.
C18_FailedWriteIsReported ==
    [][disk = "faulty" => reply'.text \notin {"start_ok", "generated", "bind_ok"}]_vars

Readable(file) == file.state = "ok"

\* C19: at startup a registry whose file cannot be read is left empty, every
\* registry whose own file can be read is loaded from it whatever happened to
\* the other files, and the process comes up with its handlers ready.
C19_ReadErrorLeavesOthersLoaded ==
    [][Restart =>
         /\ ~Readable(giveawaysFile) => ACTIVE_GIVEWAYS' = EmptyDb
         /\ ~Readable(configFile) => CONFIG_DB' = EmptyDb
         /\ ~Readable(licensesFile) => LICENSE_DB' = EmptyDb
         /\ Readable(giveawaysFile) =>
               ACTIVE_GIVEWAYS' = [g \in {int(s) : s \in DOMAIN giveawaysFile.doc} |->
                                     giveawaysFile.doc[str(g)]]
         /\ Readable(configFile) =>
               CONFIG_DB' = [g \in {int(s) : s \in DOMAIN configFile.doc} |->
                               configFile.doc[str(g)]]
         /\ Readable(licensesFile) => LICENSE_DB' = licensesFile.doc
         /\ \A p \in Handlers : pc'[p] = "idle"]_vars

\* C19's case: the process was started with a licenses.json it could not read
\* and a config.json it could: no licenses, and the guild configuration loaded
\* with the premium entry of a key that is no longer known.
C19_Witness ==
    /\ restarts = 1
    /\ ~Readable(licensesFile)
    /\ LICENSE_DB = EmptyDb
    /\ Readable(configFile)
    /\ \E g \in DOMAIN CONFIG_DB :
          /\ CONFIG_DB[g].premium.active
          /\ CONFIG_DB[g] = configFile.doc[str(g)]
    /\ \A p \in Handlers : pc[p] = "idle"

\* The step wrote the file whole.
Written(file, fileAfter) == fileAfter # file /\ fileAfter.state = "ok"

\* C20: whenever a registry is written to its file, what load_data reads from
\* that file in a fresh process is the registry that was saved, with the same
\* keys of the same type and the same records; and what a fresh process has
\* loaded from a readable file is the whole of that file.
C20_SaveThenLoadYieldsSame ==
    [][/\ Written(giveawaysFile, giveawaysFile') =>
            LoadGiveaways(giveawaysFile') = ACTIVE_GIVEWAYS'
       /\ Written(configFile, configFile') => LoadConfig(configFile') = CONFIG_DB'
       /\ Written(licensesFile, licensesFile') =>
            LoadLicenses(licensesFile') = LICENSE_DB'
       /\ Restart =>
            /\ DOMAIN ACTIVE_GIVEWAYS' \subseteq GiveawayIds
            /\ DOMAIN CONFIG_DB' \subseteq Guilds
            /\ DOMAIN LICENSE_DB' \subseteq Keys
            /\ Readable(giveawaysFile) =>
                  JsonDumpIntKeys(ACTIVE_GIVEWAYS') = giveawaysFile.doc
            /\ Readable(configFile) => JsonDumpIntKeys(CONFIG_DB') = configFile.doc
            /\ Readable(licensesFile) => LICENSE_DB' = licensesFile.doc]_vars

\* C20's case: a restarted process holds a giveaway, a guild configuration and
\* a license, each as its file has it.
C20_Witness ==
    /\ restarts = 1
    /\ reply = NoReply
    /\ ACTIVE_GIVEWAYS # EmptyDb
    /\ CONFIG_DB # EmptyDb
    /\ LICENSE_DB # EmptyDb
    /\ Readable(giveawaysFile) /\ JsonDumpIntKeys(ACTIVE_GIVEWAYS) = giveawaysFile.doc
    /\ Readable(configFile) /\ JsonDumpIntKeys(CONFIG_DB) = configFile.doc
    /\ Readable(licensesFile) /\ LICENSE_DB = licensesFile.doc

\* C21: a giveaway that is active before a step and after it has the same
\* record, message reference included: /start_giveaway never stores under an
\* id that is in the active registry.
C21_ActiveRecordNeverOverwritten ==
    [][\A g \in DOMAIN ACTIVE_GIVEWAYS \cap DOMAIN ACTIVE_GIVEWAYS' :
          ACTIVE_GIVEWAYS'[g] = ACTIVE_GIVEWAYS[g]]_vars

\* The message ids of the giveaways giveaways.json holds.
FileMessages == {giveawaysFile.doc[s].message_id : s \in DOMAIN giveawaysFile.doc}

\* C22: when the channel or the announcement message of a giveaway being
\* completed cannot be fetched, the giveaway is gone from the active registry
\* and from giveaways.json, the caller is told that it was removed, no winner
\* was drawn, and no announcement for it has been sent or is still to come.
C22_UnresolvableStillClosed ==
    [][\A p \in Handlers :
          (EndGiveawayCollect(p) /\ reply'.text = "message_not_found") =>
             LET m == loc[p].data.message_id IN
             /\ m \notin ActiveMessages'
             /\ m \notin FileMessages'
             /\ reply'.arg = loc[p].giveaway_id
             /\ loc[p].winner = NoWinner /\ loc'[p].winner = NoWinner
             /\ announced'[m] = 0
             /\ \A q \in Handlers : Completing(q)' => loc'[q].data.message_id # m]_vars

\* C22's case: the caller was told that the message of a giveaway could not be
\* found; that giveaway was popped and nothing was announced for it.
C22_Witness ==
    /\ reply.text = "message_not_found"
    /\ \E m \in MessageIds :
          obtained[m] = 1 /\ announced[m] = 0 /\ m \notin ActiveMessages

\* The winner counts a giveaway may be meant to have; /start_giveaway takes a
\* prize and a duration and stores neither this number nor any other.
WinnerCounts == 1..MaxWinners

\* The users the announcement names: the one random.choice returned, if any.
Winners(l) == IF l.winner = NoWinner THEN {} ELSE {l.winner}

Min(a, b) == IF a < b THEN a ELSE b

\* C23: whatever winner count n a giveaway is meant to have, when it is
\* completed with a non-empty set of participants the winners drawn for the
\* announcement are min(n, number of participants) distinct participants.
C23_AnnouncesMinWinners ==
    [][\A p \in Handlers, n \in WinnerCounts :
          (EndGiveawayCollect(p) /\ loc'[p].participants # {}) =>
             /\ Winners(loc'[p]) \subseteq loc'[p].participants
             /\ Cardinality(Winners(loc'[p])) =
                   Min(n, Cardinality(loc'[p].participants))]_vars

\* Some user who is not a bot is among the users of the marker reaction.
SomeoneEntered(reacted) == \E u \in reacted : ~IsBot(u)

\* C24: on completion a winner is drawn and announced if and only if some user
\* who is not a bot reacted with the marker, and that winner is such a user;
\* when there is none, the announcement and the reply say that there was no
\* valid participant and name no winner.
C24_WinnerIffNonBotReacted ==
    [][\A p \in Handlers :
          /\ (EndGiveawayCollect(p) /\ pc'[p] = "end_announce") =>
                /\ loc'[p].winner # NoWinner <=> SomeoneEntered(loc'[p].reacted)
                /\ loc'[p].winner # NoWinner =>
                      loc'[p].winner \in loc'[p].reacted /\ ~IsBot(loc'[p].winner)
          /\ (EndGiveawayAnnounce(p) /\ pc'[p] = "end_edit") =>
                /\ reply'.text = "ended_winner" <=> SomeoneEntered(loc[p].reacted)
                /\ reply'.text = "ended_no_winner" <=> loc[p].winner = NoWinner
                /\ loc'[p].winner = loc[p].winner]_vars

\* C24's case: only the bot had reacted, and the announcement that went out
\* named no winner.
C24_Witness ==
    \E p \in Handlers :
       /\ pc[p] = "end_edit"
       /\ loc[p].reacted = {"bot"}
       /\ reply.text = "ended_no_winner"
       /\ announced[loc[p].data.message_id] = 1

Rejections == {"invalid_key", "already_premium", "key_expired", "key_in_use"}

\* C25: a /license_guild that is rejected (unknown key, guild already premium,
\* expired key, key in use by another guild) leaves the license registry, the
\* guild configuration, licenses.json and config.json as they were.
C25_RejectedBindChangesNothing ==
    [][\A k \in RaceKeys, g \in Guilds :
          (LicenseGuild(k, g) /\ reply'.text \in Rejections) =>
             UNCHANGED <<LICENSE_DB, CONFIG_DB, licensesFile, configFile>>]_vars

\* C25's case: a bind was rejected because the key belongs to another guild,
\* with a license registry and a guild configuration that were there to change.
C25_Witness ==
    /\ reply.text = "key_in_use"
    /\ \E k \in DOMAIN LICENSE_DB : LICENSE_DB[k].is_used
    /\ \E g \in DOMAIN CONFIG_DB : CONFIG_DB[g].premium.active

\* C26: /end_giveaway of an id that is not active and /license_delete of a key
\* that is not in the license registry tell the caller so and return; the
\* three registries and their files stay as they were, nothing is announced
\* in a channel and no owner is notified.
C26_NotFoundChangesNothing ==
    [][/\ \A p \in Handlers, g \in GiveawayIds :
            (EndGiveawayClaim(p, g) /\ g \notin DOMAIN ACTIVE_GIVEWAYS) =>
               /\ reply' = [text |-> "not_active", arg |-> g]
               /\ pc'[p] = "idle"
               /\ UNCHANGED <<ACTIVE_GIVEWAYS, LICENSE_DB, CONFIG_DB>>
               /\ UNCHANGED <<giveawaysFile, licensesFile, configFile>>
               /\ UNCHANGED <<history, notices>>
       /\ \A p \in Handlers, k \in Keys :
            (LicenseDeleteBegin(p, k) /\ k \notin DOMAIN LICENSE_DB) =>
               /\ reply'.text = "key_not_found"
               /\ pc'[p] = "idle"
               /\ UNCHANGED <<ACTIVE_GIVEWAYS, LICENSE_DB, CONFIG_DB>>
               /\ UNCHANGED <<giveawaysFile, licensesFile, configFile>>
               /\ UNCHANGED <<history, notices>>]_vars

\* C26's case: the owner was told that a key is not in the registry while a
\* giveaway, a license and a premium guild were there to be changed.
C26_Witness ==
    /\ reply.text = "key_not_found"
    /\ ACTIVE_GIVEWAYS # EmptyDb
    /\ LICENSE_DB # EmptyDb
    /\ \E g \in DOMAIN CONFIG_DB : CONFIG_DB[g].premium.active

\* The guild config as config.json holds it.
ConfigOnFile == LoadConfig(configFile)

\* C27: once an owner notification has raised in an iteration of
\* check_licenses, the iteration still goes on as it would have: at each
\* return of owner.send the next guild of its list is set to active = false,
\* and after the last one the guild configuration is written to config.json.
C27_NotifyFailureDoesNotAbort ==
    [][\A outcome \in SendOutcomes :
          (NotifyReturns(outcome) /\ (outcome = "raised" \/ tick.raised # {})) =>
             IF tick.i < Len(tick.expired_guild_ids)
             THEN LET premium == CONFIG_DB'[tick.expired_guild_ids[tick.i + 1]].premium IN
                  /\ tick'.pc = "notify"
                  /\ tick'.i = tick.i + 1
                  /\ tick'.raised # {}
                  /\ ~premium.active
                  /\ premium.inactivated_at = tick.current_time
             ELSE /\ tick'.pc = "idle"
                  /\ configFile'.state = "ok"
                  /\ ConfigOnFile' = CONFIG_DB']_vars

\* C27's case: the notification of the first expired guild raised, and the
\* iteration has deactivated the second one.
C27_Witness ==
    /\ tick.pc = "notify"
    /\ tick.i = 2
    /\ tick.expired_guild_ids[1] \in tick.raised
    /\ ~CONFIG_DB[tick.expired_guild_ids[2]].premium.active
    /\ CONFIG_DB[tick.expired_guild_ids[2]].premium.inactivated_at = tick.current_time

\* C28: an iteration of check_licenses that finds no guild active with a
\* finite expires_at <= now is a no-op: the three registries and their files
\* stay as they were, no owner is notified, and the iteration is over.
C28_EmptySweepIsNoOp ==
    [][/\ CheckLicensesWake =>
            /\ UNCHANGED <<ACTIVE_GIVEWAYS, LICENSE_DB, CONFIG_DB>>
            /\ UNCHANGED <<giveawaysFile, licensesFile, configFile, notices>>
       /\ (CheckLicensesScan /\ DueGuilds(now) = {}) =>
            /\ tick' = IdleTick
            /\ UNCHANGED <<ACTIVE_GIVEWAYS, LICENSE_DB, CONFIG_DB>>
            /\ UNCHANGED <<giveawaysFile, licensesFile, configFile, notices>>]_vars

\* C28's case: an iteration is about to scan a configuration in which one
\* guild is active and not due and another was deactivated by an earlier
\* iteration.
C28_Witness ==
    /\ tick.pc = "scan"
    /\ DueGuilds(now) = {}
    /\ \E g \in DOMAIN CONFIG_DB : CONFIG_DB[g].premium.active
    /\ \E g \in DOMAIN CONFIG_DB : ExpiredRecord(CONFIG_DB, g)

\* owner.send is called for guild g in this step.
Notified(g) ==
    \/ notices'[g].expired > notices[g].expired
    \/ notices'[g].deleted > notices[g].deleted

\* C29: when the owner of a guild is notified that its premium was removed, by
\* check_licenses or by /license_delete, config.json already holds that guild
\* as inactive.
C29_PersistedBeforeNotified ==
    [][\A g \in Guilds :
          Notified(g) => configFile'.state = "ok" /\ ~ConfigOnFile'[g].premium.active]_vars

\* C29, its consequence: whatever crashes and restarts happen, no owner is
\* notified twice of the expiry of one activation.
C29_NotifiedOnceAcrossRestarts == \A g \in Guilds : notices[g].expired <= 1

\* Handler p is completing a giveaway and has not yet attempted the result
\* announcement (channel.send in EndGiveawayAnnounce).
BeforeAnnouncement(p) == pc[p] \in {"end_fetch", "end_announce"}

\* C30: a giveaway whose completion has not yet attempted the result
\* announcement is still in giveaways.json, so that a process that dies in the
\* middle of a completion finds the giveaway again when it is started.
C30_OnFileUntilAnnounced ==
    \A p \in Handlers :
       BeforeAnnouncement(p) =>
          giveawaysFile.state = "ok" /\ loc[p].data.message_id \in FileMessages

\* C31: in every state in which no command handler and no iteration of
\* check_licenses is suspended, and no write has failed, each of the three
\* files holds what its registry holds in memory.
C31_FilesEqualRegistries ==
    Quiescent =>
       /\ Readable(giveawaysFile) /\ LoadGiveaways(giveawaysFile) = ACTIVE_GIVEWAYS
       /\ Readable(configFile) /\ LoadConfig(configFile) = CONFIG_DB
       /\ Readable(licensesFile) /\ LoadLicenses(licensesFile) = LICENSE_DB

\* C31's case: nothing is suspended after an iteration of check_licenses has
\* deactivated a guild, with licenses in the registry.
C31_Witness ==
    /\ Quiescent
    /\ tick.pc = "idle"
    /\ LICENSE_DB # EmptyDb
    /\ \E g \in DOMAIN CONFIG_DB : ExpiredRecord(CONFIG_DB, g)

HasPremiumRecord(config, g) == g \in DOMAIN config /\ config[g].premium # NoPremium

\* C32: no step removes a guild from the guild configuration, and a guild that
\* has a premium record has one after every step: expiry, key deletion,
\* rebinding and /set_giveaway_channel change fields of the record only.
C32_PremiumRecordKept ==
    [][\A g \in Guilds :
          /\ g \in DOMAIN CONFIG_DB => g \in DOMAIN CONFIG_DB'
          /\ HasPremiumRecord(CONFIG_DB, g) => HasPremiumRecord(CONFIG_DB', g)]_vars

\* C32's case: one guild's record was deactivated by the deletion of its key
\* and the guild has set a giveaway channel; the other guild's record was
\* deactivated by expiry.
C32_Witness ==
    /\ \E g \in DOMAIN CONFIG_DB :
          /\ CONFIG_DB[g].premium.removal_reason = "License deleted by owner."
          /\ CONFIG_DB[g].giveaway_channel_id # NoChannel
    /\ \E g \in DOMAIN CONFIG_DB : ExpiredRecord(CONFIG_DB, g)

\* C33: when channel.send or add_reaction of /start_giveaway raises, the
\* caller is told that the start failed and the active registry and
\* giveaways.json stay as they were; nothing is registered before both calls
\* have returned, and the giveaway is registered and confirmed when they have.
C33_FailedStartRegistersNothing ==
    [][\A p \in Handlers :
          /\ (StartSendReturns(p, "raised") \/ StartReactReturns(p, "raised")) =>
                /\ reply' = [text |-> "start_failed", arg |-> loc[p].giveaway_id]
                /\ pc'[p] = "idle"
                /\ UNCHANGED <<ACTIVE_GIVEWAYS, giveawaysFile>>
          /\ StartSendReturns(p, "returned") =>
                UNCHANGED <<ACTIVE_GIVEWAYS, giveawaysFile>>
          /\ (\E d \in Durations : StartGiveawayBegin(p, d)) =>
                UNCHANGED <<ACTIVE_GIVEWAYS, giveawaysFile>>
          /\ StartReactReturns(p, "returned") =>
                Stored(p) /\ reply'.text = "start_ok"]_vars

\* C33's case: the caller was told that the start failed after add_reaction
\* raised: an announcement was posted that is not in the registry, which
\* holds another giveaway.
C33_Witness ==
    /\ reply.text = "start_failed"
    /\ ACTIVE_GIVEWAYS # EmptyDb
    /\ \E m \in MessageIds :
          m < nextMessageId /\ m \notin ActiveMessages /\ obtained[m] = 0

\* No /end_giveaway has popped a giveaway so far: the registry has only grown.
NothingEnded == \A m \in MessageIds : obtained[m] = 0

\* C34: while no giveaway has been ended, a /start_giveaway that reports
\* success registered its giveaway under an id no active giveaway has, and
\* every giveaway registered before it is still in the active registry, however
\* the invocations were interleaved at channel.send and add_reaction.
C34_InterleavedStartsBothRegistered ==
    [][\A p \in Handlers :
          (NothingEnded /\ StartReactReturns(p, "returned")) =>
             /\ reply' = [text |-> "start_ok", arg |-> loc[p].giveaway_id]
             /\ loc[p].giveaway_id \notin DOMAIN ACTIVE_GIVEWAYS
             /\ ActiveMessages \subseteq ActiveMessages']_vars

\* C35: the last step of a /license_delete does not raise and leaves its key
\* out of the license registry, also when another /license_delete of the same
\* key ran between its awaits.
C35_InterleavedDeletesComplete ==
    [][\A p \in Handlers :
          LicenseDeleteFinish(p) =>
             /\ reply'.text = "deleted"
             /\ loc[p].key \notin DOMAIN LICENSE_DB']_vars

\* C36: is_guild_premium reports no guild as premium whose expires_at is a
\* timestamp that is not later than the current time, whether or not
\* check_licenses has deactivated the record yet.
C36_OverdueNeverReportedPremium ==
    \A g \in DOMAIN CONFIG_DB :
        (/\ CONFIG_DB[g].premium.expires_at.kind = "int"
         /\ CONFIG_DB[g].premium.expires_at.n <= now) => ~is_guild_premium(g)[1]

\* C36's case: a record is still active a day after its expires_at, and no
\* iteration of check_licenses has dealt with the guild since.
C36_Witness ==
    \E g \in Guilds :
        /\ Overdue(g)
        /\ CONFIG_DB[g].premium.expires_at.n < now
        /\ notices[g].expired = 0
        /\ tick.pc = "idle"

\* C37: an entity a readable file holds and the process did not load (the read
\* of its file failed at startup) is still in that file, and the file is still
\* readable, after every step of the process.
C37_UnloadedEntitiesStayOnFile ==
    [][/\ \A s \in DOMAIN giveawaysFile.doc :
             (Readable(giveawaysFile) /\ int(s) \notin DOMAIN ACTIVE_GIVEWAYS) =>
                Readable(giveawaysFile') /\ s \in DOMAIN giveawaysFile'.doc
       /\ \A s \in DOMAIN configFile.doc :
             (Readable(configFile) /\ int(s) \notin DOMAIN CONFIG_DB) =>
                Readable(configFile') /\ s \in DOMAIN configFile'.doc
       /\ \A k \in DOMAIN licensesFile.doc :
             (Readable(licensesFile) /\ k \notin DOMAIN LICENSE_DB) =>
                Readable(licensesFile') /\ k \in DOMAIN licensesFile'.doc]_vars

\* C38: after every step each file is as it was before the step or holds the
\* whole registry as it is after the step; no save_data call leaves a file
\* that load_data cannot read.
C38_FileWholeOldOrWholeNew ==
    [][/\ \/ giveawaysFile' = giveawaysFile
          \/ /\ Readable(giveawaysFile')
             /\ giveawaysFile'.doc = JsonDumpIntKeys(ACTIVE_GIVEWAYS')
       /\ \/ configFile' = configFile
          \/ Readable(configFile') /\ configFile'.doc = JsonDumpIntKeys(CONFIG_DB')
       /\ \/ licensesFile' = licensesFile
          \/ Readable(licensesFile') /\ licensesFile'.doc = LICENSE_DB']_vars

\* C39: /license_generate fixes the expiry timestamp of a key at the time of
\* the generation plus its duration in days ("N/A" for a lifetime key); no
\* step changes it while the key is in the registry; and a /license_guild that
\* binds a key writes exactly that timestamp as the guild's expires_at,
\* whenever the bind happens.
C39_BindCopiesKeyExpiry ==
    [][/\ \A d \in LongTerms :
             LicenseGenerate(d) =>
                LICENSE_DB'[nextKey].expiry_timestamp =
                   IF d <= 0 THEN PyStr("N/A") ELSE PyInt(now + d * SecondsPerDay)
       /\ \A k \in DOMAIN LICENSE_DB \cap DOMAIN LICENSE_DB' :
             LICENSE_DB'[k].expiry_timestamp = LICENSE_DB[k].expiry_timestamp
       /\ \A k \in Keys, g \in Guilds :
             (LicenseGuild(k, g) /\ reply'.text = "bind_ok") =>
                /\ CONFIG_DB'[g].premium.active
                /\ CONFIG_DB'[g].premium.license_key = k
                /\ CONFIG_DB'[g].premium.expires_at = LICENSE_DB[k].expiry_timestamp]_vars

\* C39's case: a key of MaxLongTerm days generated at time 0 has just been
\* bound a day later, and the guild's expires_at is the end of the key's term,
\* not a term counted from the bind.
C39_Witness ==
    \E g \in Guilds :
        /\ reply.text = "bind_ok"
        /\ now = SecondsPerDay
        /\ g \in DOMAIN CONFIG_DB
        /\ CONFIG_DB[g].premium.active
        /\ CONFIG_DB[g].premium.expires_at = PyInt(MaxLongTerm * SecondsPerDay)

\* The keys load_local_data of the dashboard subscripts in each giveaway record
\* of giveaways.json: g_data['entries'] and g_data['end_time'].
DashboardReads == {"entries", "end_time"}

\* load_local_data raises KeyError on this record.
KeyErrorIn(g_data) == ~(DashboardReads \subseteq DOMAIN g_data)

\* C40: every giveaway record in giveaways.json has every field the dashboard
\* reads from it, so that load_local_data computes its statistics without a
\* KeyError whatever the bot has written.
C40_DashboardFieldsPersisted ==
    \A s \in DOMAIN giveawaysFile.doc : ~KeyErrorIn(giveawaysFile.doc[s])

====
